---- MODULE Spec2Model ----
(***************************************************************************)
(* Model of rest_framework/utils/field_mapping.py: the helpers that map a  *)
(* model field (or a relation) to the keyword arguments of the equivalent  *)
(* serializer field, and the class-keyed lookup table ClassLookupDict.     *)
(*                                                                         *)
(* Every function of the module is a pure function of in-memory            *)
(* descriptors.  Each is an operator here, computed rule by rule as the    *)
(* code computes it; the specifications draw the inputs from bounded sets  *)
(* in Init and apply the functions in their actions.  Python lists are     *)
(* objects on a heap (an address and its contents), so that aliasing and   *)
(* in-place mutation of model_field.validators are expressible.            *)
(***************************************************************************)
EXTENDS Integers, Sequences, FiniteSets, TLC

VARIABLES
    field_name,         \* argument: the field's name, a sequence of characters
    model_field,        \* argument: the model field descriptor, or NoField
    related_model,      \* relation_info: the related model's _meta
    to_many,            \* relation_info: to-many flag
    has_through_model,  \* relation_info: through-model flag
    heap,               \* list objects: address -> contents
    mapping,            \* ClassLookupDict.mapping: class -> value
    key,                \* the object looked up in the ClassLookupDict
    result,             \* the value returned by the call
    pc                  \* "start", or the name of the call that returned/raised

vars == <<field_name, model_field, related_model, to_many, has_through_model,
          heap, mapping, key, result, pc>>

(***************************************************************************)
(* Bounds of the model.                                                    *)
(***************************************************************************)
MaxValidators == 2   \* longest validators list drawn
MaxLimit == 1        \* limit values and lengths are drawn from 0..MaxLimit
MaxNameLen == 3      \* longest field name and verbose name drawn in the label check
MaxStrLen == 3       \* longest app label and object name drawn
NumValues == 2       \* distinct values a ClassLookupDict mapping may hold

(***************************************************************************)
(* Python values.                                                          *)
(***************************************************************************)
None == <<>>                 \* an optional value is <<>> or <<v>>
Some(v) == <<v>>

RECURSIVE SeqsUpTo(_, _)
SeqsUpTo(S, n) ==
    IF n = 0 THEN {<<>>}
    ELSE LET shorter == SeqsUpTo(S, n - 1)
         IN  shorter \cup {Append(s, x) : s \in {t \in shorter : Len(t) = n - 1}, x \in S}

\* dict[k] = v / dict.pop(k, None)
Put(kwargs, k, v) ==
    [x \in DOMAIN kwargs \cup {k} |-> IF x = k THEN v ELSE kwargs[x]]
Pop(kwargs, k) ==
    [x \in DOMAIN kwargs \ {k} |-> kwargs[x]]

(***************************************************************************)
(* Strings are sequences of one-character strings.                         *)
(***************************************************************************)
UpperChar(c) ==
    CASE c = "a" -> "A" [] c = "b" -> "B" [] c = "d" -> "D" [] c = "x" -> "X"
      [] OTHER -> c
LowerChar(c) ==
    CASE c = "A" -> "a" [] c = "B" -> "b" [] c = "D" -> "d" [] c = "X" -> "x"
      [] OTHER -> c

\* str.lower()
Lower(s) == [i \in 1..Len(s) |-> LowerChar(s[i])]
\* str.replace(old, new) for one-character old and new
Replace(s, old, new) == [i \in 1..Len(s) |-> IF s[i] = old THEN new ELSE s[i]]
\* str.capitalize(): first character upper-cased, the rest lower-cased
Capitalize(s) ==
    [i \in 1..Len(s) |-> IF i = 1 THEN UpperChar(s[i]) ELSE LowerChar(s[i])]
\* django.utils.text.capfirst: first character upper-cased, the rest kept
capfirst(s) ==
    IF s = <<>> THEN s
    ELSE [i \in 1..Len(s) |-> IF i = 1 THEN UpperChar(s[i]) ELSE s[i]]

IsSubstring(sub, s) ==
    \E i \in 0..(Len(s) - Len(sub)) :
        \A j \in 1..Len(sub) : s[i + j] = sub[j]

(***************************************************************************)
(* Classes and their method resolution order (inspect.getmro).             *)
(***************************************************************************)
FieldClasses ==
    {"Field", "AutoField", "CharField", "TextField", "URLField", "EmailField",
     "SlugField", "NullBooleanField", "IntegerField", "DecimalField"}

Classes == FieldClasses \cup {"object", "BoundField"}

getmro(cls) ==
    CASE cls = "object" -> <<"object">>
      [] cls = "BoundField" -> <<"BoundField", "object">>
      [] cls = "Field" -> <<"Field", "object">>
      [] cls \in {"URLField", "EmailField", "SlugField"} ->
             <<cls, "CharField", "Field", "object">>
      [] OTHER -> <<cls, "Field", "object">>

\* isinstance(model_field, models.<cls>)
IsInstance(mf, cls) ==
    \E i \in 1..Len(getmro(mf.cls)) : getmro(mf.cls)[i] = cls

(***************************************************************************)
(* Validators.  The four limit validators carry limit_value; validate_email*)
(* and validate_slug are module-level instances compared by identity.      *)
(***************************************************************************)
LimitKinds ==
    {"MaxLengthValidator", "MinLengthValidator", "MaxValueValidator",
     "MinValueValidator"}
OtherKinds == {"URLValidator", "validate_email", "validate_slug", "RegexValidator"}

Limits == 0..MaxLimit

Validators ==
    {[kind |-> k, limit_value |-> l] : k \in LimitKinds, l \in Limits}
      \cup {[kind |-> k] : k \in OtherKinds}

\* UniqueValidator(queryset=model_field.model._default_manager)
UniqueValidator == [kind |-> "UniqueValidator"]

(***************************************************************************)
(* The heap of list objects.  FieldList is model_field.validators;         *)
(* LocalList is the list the running call has built most recently (the     *)
(* lists it built before are garbage once the name is rebound).            *)
(***************************************************************************)
FieldList == "model_field.validators"
LocalList == "local"
Addr == {FieldList, LocalList}

HeapWith(vs) == [a \in Addr |-> IF a = FieldList THEN vs ELSE <<>>]

\* list(model_field.validators), mutated: no copy, the same list object
ListAlias(h, a) == [addr |-> a, heap |-> h]

\* list(model_field.validators): a new list with the same elements
ListCopy(h, a) == [addr |-> LocalList, heap |-> [h EXCEPT ![LocalList] = h[a]]]

\* [validator for validator in validator_kwarg if not <of one of kinds>]:
\* a new list, to which the name validator_kwarg is rebound
Without(s, kinds) ==
    [s EXCEPT !.validator_kwarg = LocalList,
              !.heap = [s.heap EXCEPT ![LocalList] =
                           SelectSeq(s.heap[s.validator_kwarg],
                                     LAMBDA v : v.kind \notin kinds)]]

(***************************************************************************)
(* needs_label, get_detail_view_name                                       *)
(***************************************************************************)
\* needs_label, mutated: the default label built with capfirst
needs_label_capfirst(mf, name) ==
    capfirst(mf.verbose_name) # capfirst(Replace(name, "_", " "))

needs_label(mf, name) ==
    LET default_label == Capitalize(Replace(name, "_", " "))
    IN  capfirst(mf.verbose_name) # default_label

Detail == <<"-", "d", "e", "t", "a", "i", "l">>

\* '%(model_name)s-detail' % {...}: only model_name is named by the format
FormatViewName(d) == d.model_name \o Detail

\* get_detail_view_name, mutated: the object name is not lower-cased
get_detail_view_name_cased(model) ==
    FormatViewName([app_label |-> model.app_label, model_name |-> model.object_name])

get_detail_view_name(model) ==
    FormatViewName([app_label |-> model.app_label,
                    model_name |-> Lower(model.object_name)])

(***************************************************************************)
(* get_field_kwargs, rule by rule.  The rules before the read-only return  *)
(* act on kwargs alone; the rules after the choices return act on          *)
(* s = [kwargs, validator_kwarg, heap], validator_kwarg being the address  *)
(* of the list the name is bound to.                                       *)
(***************************************************************************)
NoField == [cls |-> "None"]

LabelRule(kwargs, name, mf) ==
    IF mf.verbose_name # <<>> /\ needs_label(mf, name)
    THEN Put(kwargs, "label", capfirst(mf.verbose_name))
    ELSE kwargs

HelpTextRule(kwargs, mf) ==
    IF mf.help_text # "" THEN Put(kwargs, "help_text", mf.help_text) ELSE kwargs

MaxDigitsRule(kwargs, mf) ==
    IF mf.max_digits # None THEN Put(kwargs, "max_digits", mf.max_digits[1]) ELSE kwargs

DecimalPlacesRule(kwargs, mf) ==
    IF mf.decimal_places # None
    THEN Put(kwargs, "decimal_places", mf.decimal_places[1])
    ELSE kwargs

StyleRule(kwargs, mf) ==
    IF IsInstance(mf, "TextField")
    THEN Put(kwargs, "style", [base_template |-> "textarea.html"])
    ELSE kwargs

\* IsReadOnly, mutated: only auto fields are read-only
IsReadOnlyAutoOnly(mf) == IsInstance(mf, "AutoField")

IsReadOnly(mf) == IsInstance(mf, "AutoField") \/ ~mf.editable

\* RequiredRule, mutated: blank is not looked at
RequiredRuleNoBlank(kwargs, mf) ==
    IF mf.has_default \/ mf.null THEN Put(kwargs, "required", FALSE) ELSE kwargs

RequiredRule(kwargs, mf) ==
    IF mf.has_default \/ mf.blank \/ mf.null
    THEN Put(kwargs, "required", FALSE)
    ELSE kwargs

AllowNullRule(kwargs, mf) ==
    IF mf.null /\ ~IsInstance(mf, "NullBooleanField")
    THEN Put(kwargs, "allow_null", TRUE)
    ELSE kwargs

AllowBlankRule(kwargs, mf) ==
    IF mf.blank THEN Put(kwargs, "allow_blank", TRUE) ELSE kwargs

\* MaxLengthRule, mutated: the keyword is set, the validators are kept
MaxLengthRuleKeepValidator(s, mf) ==
    IF mf.max_length # None /\ IsInstance(mf, "CharField")
    THEN [s EXCEPT !.kwargs = Put(s.kwargs, "max_length", mf.max_length[1])]
    ELSE s

MaxLengthRule(s, mf) ==
    IF mf.max_length # None /\ IsInstance(mf, "CharField")
    THEN Without([s EXCEPT !.kwargs = Put(s.kwargs, "max_length", mf.max_length[1])],
                 {"MaxLengthValidator"})
    ELSE s

\* next((validator.limit_value for validator in validator_kwarg
\*       if isinstance(validator, <kind>)), None)
RECURSIVE FirstLimit(_, _)
FirstLimit(vs, kind) ==
    IF vs = <<>> THEN None
    ELSE IF Head(vs).kind = kind THEN Some(Head(vs).limit_value)
    ELSE FirstLimit(Tail(vs), kind)

\* IsSet, mutated: "if limit:" in place of "if limit is not None:"
IsTruthy(limit) == limit # None /\ limit[1] # 0

\* limit is not None
IsSet(limit) == limit # None

BoundRule(s, kind, keyword) ==
    LET limit == FirstLimit(s.heap[s.validator_kwarg], kind)
    IN  IF IsSet(limit)
        THEN Without([s EXCEPT !.kwargs = Put(s.kwargs, keyword, limit[1])], {kind})
        ELSE s

MinLengthRule(s) == BoundRule(s, "MinLengthValidator", "min_length")
MaxValueRule(s) == BoundRule(s, "MaxValueValidator", "max_value")
MinValueRule(s) == BoundRule(s, "MinValueValidator", "min_value")

URLRule(s, mf) ==
    IF IsInstance(mf, "URLField") THEN Without(s, {"URLValidator"}) ELSE s
EmailRule(s, mf) ==
    IF IsInstance(mf, "EmailField") THEN Without(s, {"validate_email"}) ELSE s
SlugRule(s, mf) ==
    IF IsInstance(mf, "SlugField") THEN Without(s, {"validate_slug"}) ELSE s

\* validator_kwarg.append(validator): in place, on the list the name is bound to
UniqueRule(s, mf) ==
    IF mf.unique
    THEN [s EXCEPT !.heap = [s.heap EXCEPT ![s.validator_kwarg] =
                                Append(s.heap[s.validator_kwarg], UniqueValidator)]]
    ELSE s

ValidatorsRule(s) ==
    IF s.heap[s.validator_kwarg] # <<>>
    THEN [s EXCEPT !.kwargs = Put(s.kwargs, "validators", s.validator_kwarg)]
    ELSE s

\* Lines 106-183: the rules that follow the choices return.
BoundsAndValidators(s, mf) ==
    LET s1 == MaxLengthRule(s, mf)
        s2 == MinLengthRule(s1)
        s3 == MaxValueRule(s2)
        s4 == MinValueRule(s3)
        s5 == URLRule(s4, mf)
        s6 == EmailRule(s5, mf)
        s7 == SlugRule(s6, mf)
        s8 == UniqueRule(s7, mf)
    IN  ValidatorsRule(s8)

\* ChoicesRule, mutated: choices is set, the early return is missing
ChoicesRuleFallThrough(s, mf) ==
    IF mf.flatchoices # <<>>
    THEN BoundsAndValidators(
             [s EXCEPT !.kwargs = Put(s.kwargs, "choices", mf.flatchoices)], mf)
    ELSE BoundsAndValidators(s, mf)

\* Lines 100-104: a field with choices returns early
ChoicesRule(s, mf) ==
    IF mf.flatchoices # <<>>
    THEN [s EXCEPT !.kwargs = Put(s.kwargs, "choices", mf.flatchoices)]
    ELSE BoundsAndValidators(s, mf)

\* Returns [kwargs, heap]: the mapping returned and the heap after the call.
get_field_kwargs(name, mf, h) ==
    LET copy == ListCopy(h, mf.validators)
        k0 == Put(<<>>, "model_field", mf)
        k1 == LabelRule(k0, name, mf)
        k2 == HelpTextRule(k1, mf)
        k3 == MaxDigitsRule(k2, mf)
        k4 == DecimalPlacesRule(k3, mf)
        k5 == StyleRule(k4, mf)
        k6 == RequiredRule(k5, mf)
        k7 == AllowNullRule(k6, mf)
        k8 == AllowBlankRule(k7, mf)
        s  == ChoicesRule([kwargs |-> k8, validator_kwarg |-> copy.addr,
                           heap |-> copy.heap], mf)
    IN  IF IsReadOnly(mf)
        THEN [kwargs |-> Put(k5, "read_only", TRUE), heap |-> copy.heap]
        ELSE [kwargs |-> s.kwargs, heap |-> s.heap]

(***************************************************************************)
(* get_relation_kwargs, get_nested_relation_kwargs, get_url_kwargs         *)
(***************************************************************************)
DefaultManager == "related_model._default_manager"

\* The help text Django adds to a many-to-many field's own.
HoldDownText == "Hold down Control to select more than one."

\* rest_framework.compat.clean_manytomany_helptext: strips the text Django
\* adds.  The function is not part of this source file: the outcomes are the
\* text itself, or the text with the addition (here: all of it) removed.
clean_manytomany_helptext(text) ==
    IF text = HoldDownText THEN {text, ""} ELSE {text}

\* ReadOnlyReturn, mutated: read_only is set, queryset is not dropped
ReadOnlyKeepQueryset(kwargs) == Put(kwargs, "read_only", TRUE)

\* kwargs['read_only'] = True; kwargs.pop('queryset', None)
ReadOnlyReturn(kwargs) == Pop(Put(kwargs, "read_only", TRUE), "queryset")

\* line 214: kwargs.get('read_only', False)
GetReadOnly(kwargs) == "read_only" \in DOMAIN kwargs /\ kwargs["read_only"]

\* Lines 218-226, on s = [kwargs, heap].  kwargs['validators'] is first the
\* field's own list object; "+" builds a new list.
RelationValidators(s, mf) ==
    LET k1 == IF mf.has_default \/ mf.null
              THEN Put(s.kwargs, "required", FALSE) ELSE s.kwargs
        k2 == IF mf.null THEN Put(k1, "allow_null", TRUE) ELSE k1
        k3 == IF s.heap[mf.validators] # <<>>
              THEN Put(k2, "validators", mf.validators) ELSE k2
        got == IF "validators" \in DOMAIN k3 THEN s.heap[k3["validators"]] ELSE <<>>
    IN  IF mf.unique
        THEN [kwargs |-> Put(k3, "validators", LocalList),
              heap |-> [s.heap EXCEPT ![LocalList] = got \o <<UniqueValidator>>]]
        ELSE [kwargs |-> k3, heap |-> s.heap]

\* relation_info = (model_field, related_model, to_many, has_through_model);
\* cleaned is the value clean_manytomany_helptext returned.
get_relation_kwargs(name, relation_info, cleaned, h) ==
    LET mf == relation_info[1]
        k0 == Put(Put(<<>>, "queryset", DefaultManager),
                  "view_name", get_detail_view_name(relation_info[2]))
        k1 == IF relation_info[3] THEN Put(k0, "many", TRUE) ELSE k0
        k2 == IF relation_info[4] THEN ReadOnlyReturn(k1) ELSE k1
        k3 == LabelRule(k2, name, mf)
        k4 == IF cleaned # "" THEN Put(k3, "help_text", cleaned) ELSE k3
        k5 == IF ~mf.editable THEN ReadOnlyReturn(k4) ELSE k4
    IN  IF mf = NoField THEN [kwargs |-> k2, heap |-> h]
        ELSE IF GetReadOnly(k5) THEN [kwargs |-> k5, heap |-> h]
        ELSE RelationValidators([kwargs |-> k5, heap |-> h], mf)

get_nested_relation_kwargs(relation_info) ==
    LET k0 == Put(<<>>, "read_only", TRUE)
    IN  IF relation_info[3] THEN Put(k0, "many", TRUE) ELSE k0

get_url_kwargs(model) == Put(<<>>, "view_name", get_detail_view_name(model))

(***************************************************************************)
(* ClassLookupDict.__getitem__                                             *)
(***************************************************************************)
\* hasattr(key, '_proxy_class')
BaseClass(k) == IF k.proxy_class # None THEN k.proxy_class[1] ELSE k.cls

\* FirstInMro, mutated: the order is walked from the least specific class
RECURSIVE LastInMro(_, _)
LastInMro(mro, m) ==
    IF mro = <<>> THEN [raised |-> TRUE]
    ELSE IF mro[Len(mro)] \in DOMAIN m
    THEN [raised |-> FALSE, value |-> m[mro[Len(mro)]]]
    ELSE LastInMro(SubSeq(mro, 1, Len(mro) - 1), m)

\* for cls in inspect.getmro(base_class): ... ; raise KeyError
RECURSIVE FirstInMro(_, _)
FirstInMro(mro, m) ==
    IF mro = <<>> THEN [raised |-> TRUE]
    ELSE IF Head(mro) \in DOMAIN m THEN [raised |-> FALSE, value |-> m[Head(mro)]]
    ELSE FirstInMro(Tail(mro), m)

getitem(m, k) == FirstInMro(getmro(BaseClass(k)), m)

(***************************************************************************)
(* The inputs.                                                             *)
(***************************************************************************)
\* A model field: its class, verbose_name, help_text, <<max_digits,
\* decimal_places>>, editable, has_default(), blank, null, flatchoices,
\* max_length and unique; its validators are the list object FieldList.
MakeField(cls, vn, ht, prec, ed, hd, bl, nu, ch, ml, un) ==
    [cls |-> cls, verbose_name |-> vn, help_text |-> ht,
     max_digits |-> prec[1], decimal_places |-> prec[2],
     editable |-> ed, has_default |-> hd, blank |-> bl,
     null |-> nu, flatchoices |-> ch, max_length |-> ml,
     unique |-> un, validators |-> FieldList]

\* Only a DecimalField has max_digits and decimal_places (either may be None).
Precisions(cls) ==
    IF cls = "DecimalField"
    THEN {<<md, dp>> : md \in {None, Some(5)}, dp \in {None, Some(2)}}
    ELSE {<<None, None>>}

Choices == <<<<"c1", "One">>, <<"c2", "Two">>>>

\* <<field name, verbose name>>: no verbose name, the one Django derives from
\* the field name, and one of the author's own
NamePairs ==
    {<<<<"a", "_", "b">>, <<>>>>,
     <<<<"a", "_", "b">>, <<"a", " ", "b">>>>,
     <<<<"a", "_", "b">>, <<"B">>>>}

HelpTexts == {"", "help"}

SampleValidatorLists ==
    {<<>>,
     <<[kind |-> "MaxLengthValidator", limit_value |-> MaxLimit]>>,
     <<[kind |-> "RegexValidator"], [kind |-> "MinValueValidator", limit_value |-> 0]>>}

ValidatorLists == SeqsUpTo(Validators, MaxValidators)

DefaultName == <<"a">>
DefaultModel == [app_label |-> <<"x">>, object_name |-> <<"A">>]
DefaultKey == [cls |-> "object", proxy_class |-> None]

\* What a specification that does not draw them gives the other inputs.
NoRelation ==
    /\ related_model = DefaultModel
    /\ to_many = FALSE
    /\ has_through_model = FALSE
NoLookup ==
    /\ mapping = <<>>
    /\ key = DefaultKey
NotCalled ==
    /\ result = <<>>
    /\ pc = "start"

\* Fields of every class and flag, with a few validators lists.
InitAttrs ==
    \E np \in NamePairs, ht \in HelpTexts, cls \in FieldClasses,
       ed \in BOOLEAN, hd \in BOOLEAN, bl \in BOOLEAN, nu \in BOOLEAN,
       ch \in {<<>>, Choices}, ml \in {None} \cup {Some(l) : l \in Limits},
       un \in BOOLEAN, vs \in SampleValidatorLists :
        \E prec \in Precisions(cls) :
            /\ field_name = np[1]
            /\ model_field = MakeField(cls, np[2], ht, prec, ed, hd, bl, nu, ch, ml, un)
            /\ heap = HeapWith(vs)

\* Every validators list, on fields of the classes the validator rules tell
\* apart, editable or not, with and without choices.
InitValidators ==
    \E cls \in FieldClasses \ {"AutoField", "NullBooleanField", "DecimalField"},
       ed \in BOOLEAN, ch \in {<<>>, Choices},
       ml \in {None, Some(MaxLimit)}, un \in BOOLEAN, vs \in ValidatorLists :
        /\ field_name = DefaultName
        /\ model_field = MakeField(cls, <<>>, "", <<None, None>>, ed, FALSE, FALSE,
                                   FALSE, ch, ml, un)
        /\ heap = HeapWith(vs)

Init ==
    /\ InitAttrs \/ InitValidators
    /\ NoRelation
    /\ NoLookup
    /\ NotCalled

\* Relations: with and without a model field.
InitRelation ==
    /\ \/ model_field = NoField /\ heap = HeapWith(<<>>) /\ field_name = DefaultName
       \/ \E np \in NamePairs, ht \in HelpTexts \cup {HoldDownText},
             ed \in BOOLEAN, hd \in BOOLEAN, nu \in BOOLEAN, un \in BOOLEAN,
             vs \in SampleValidatorLists :
              /\ field_name = np[1]
              /\ model_field = MakeField("Field", np[2], ht, <<None, None>>, ed, hd,
                                         FALSE, nu, <<>>, None, un)
              /\ heap = HeapWith(vs)
    /\ related_model \in {DefaultModel, [app_label |-> <<"a">>, object_name |-> <<"B", "a">>]}
    /\ to_many \in BOOLEAN
    /\ has_through_model \in BOOLEAN
    /\ NoLookup
    /\ NotCalled

LabelChars == {"a", "A", "_", " "}

\* Every field name and verbose name, on an editable or read-only field of a
\* scalar and of a relation, and on a relation without a model field.
InitLabel ==
    /\ field_name \in SeqsUpTo(LabelChars, MaxNameLen) \ {<<>>}
    /\ \/ \E vn \in SeqsUpTo(LabelChars, MaxNameLen), ed \in BOOLEAN :
              model_field = MakeField("Field", vn, "", <<None, None>>, ed, FALSE,
                                      FALSE, FALSE, <<>>, None, FALSE)
       \/ model_field = NoField
    /\ heap = HeapWith(<<>>)
    /\ NoRelation
    /\ NoLookup
    /\ NotCalled

\* Every validators list, on a scalar field and on a relation's.
InitFrame ==
    /\ \E cls \in {"CharField", "IntegerField"}, ed \in BOOLEAN, un \in BOOLEAN :
           model_field = MakeField(cls, <<>>, "", <<None, None>>, ed, FALSE, FALSE,
                                   FALSE, <<>>, Some(MaxLimit), un)
    /\ \E vs \in ValidatorLists : heap = HeapWith(vs)
    /\ field_name = DefaultName
    /\ NoRelation
    /\ NoLookup
    /\ NotCalled

LookupClasses == {"object", "Field", "CharField", "EmailField", "IntegerField"}
KeyClasses == LookupClasses \cup {"BoundField"}

\* Every mapping over the lookup classes and every key object.
InitLookup ==
    /\ \E D \in SUBSET LookupClasses : mapping \in [D -> 1..NumValues]
    /\ key \in [cls : KeyClasses, proxy_class : {None} \cup {Some(c) : c \in LookupClasses}]
    /\ field_name = DefaultName
    /\ model_field = NoField
    /\ heap = HeapWith(<<>>)
    /\ NoRelation
    /\ NotCalled

AppLabelChars == {"x", "a", "d"}
ObjectNameChars == {"a", "B"}

\* Every app label and object name.
InitViewName ==
    /\ related_model \in [app_label : SeqsUpTo(AppLabelChars, MaxStrLen) \ {<<>>},
                          object_name : SeqsUpTo(ObjectNameChars, MaxStrLen) \ {<<>>}]
    /\ to_many = FALSE
    /\ has_through_model = FALSE
    /\ field_name = DefaultName
    /\ model_field = NoField
    /\ heap = HeapWith(<<>>)
    /\ NoLookup
    /\ NotCalled

(***************************************************************************)
(* The calls.                                                              *)
(***************************************************************************)
GetFieldKwargs ==
    /\ pc = "start"
    /\ model_field # NoField
    /\ LET r == get_field_kwargs(field_name, model_field, heap)
       IN  /\ result' = r.kwargs
           /\ heap' = r.heap
    /\ pc' = "get_field_kwargs"
    /\ UNCHANGED <<field_name, model_field, related_model, to_many,
                   has_through_model, mapping, key>>

GetRelationKwargs ==
    /\ pc = "start"
    /\ \E cleaned \in (IF model_field = NoField THEN {""}
                       ELSE clean_manytomany_helptext(model_field.help_text)) :
           LET relation_info == <<model_field, related_model, to_many, has_through_model>>
               r == get_relation_kwargs(field_name, relation_info, cleaned, heap)
           IN  /\ result' = r.kwargs
               /\ heap' = r.heap
    /\ pc' = "get_relation_kwargs"
    /\ UNCHANGED <<field_name, model_field, related_model, to_many,
                   has_through_model, mapping, key>>

GetNestedRelationKwargs ==
    /\ pc = "start"
    /\ result' = get_nested_relation_kwargs(
                     <<model_field, related_model, to_many, has_through_model>>)
    /\ pc' = "get_nested_relation_kwargs"
    /\ UNCHANGED <<field_name, model_field, related_model, to_many,
                   has_through_model, heap, mapping, key>>

GetDetailViewName ==
    /\ pc = "start"
    /\ result' = get_detail_view_name(related_model)
    /\ pc' = "get_detail_view_name"
    /\ UNCHANGED <<field_name, model_field, related_model, to_many,
                   has_through_model, heap, mapping, key>>

GetUrlKwargs ==
    /\ pc = "start"
    /\ result' = get_url_kwargs(related_model)
    /\ pc' = "get_url_kwargs"
    /\ UNCHANGED <<field_name, model_field, related_model, to_many,
                   has_through_model, heap, mapping, key>>

\* mapping[key]: returns the value, or raises KeyError
GetItem ==
    /\ pc = "start"
    /\ LET r == getitem(mapping, key)
       IN  IF r.raised
           THEN result' = <<>> /\ pc' = "KeyError"
           ELSE result' = r.value /\ pc' = "getitem"
    /\ UNCHANGED <<field_name, model_field, related_model, to_many,
                   has_through_model, heap, mapping, key>>

Next == GetFieldKwargs
NextRelation == GetRelationKwargs \/ GetNestedRelationKwargs
NextBoth == GetFieldKwargs \/ GetRelationKwargs
NextLookup == GetItem
NextViewName == GetDetailViewName \/ GetUrlKwargs

Spec == Init /\ [][Next]_vars
SpecRelation == InitRelation /\ [][NextRelation]_vars
SpecLabel == InitLabel /\ [][NextBoth]_vars
SpecFrame == InitFrame /\ [][NextBoth]_vars
SpecLookup == InitLookup /\ [][NextLookup]_vars
SpecViewName == InitViewName /\ [][NextViewName]_vars

(***************************************************************************)
(* Properties.                                                             *)
(***************************************************************************)
Returned(call) == pc = call
Has(k) == k \in DOMAIN result
FieldValidators == heap[FieldList]
ResultValidators == IF Has("validators") THEN heap[result["validators"]] ELSE <<>>
Kinds(vs) == {vs[i].kind : i \in 1..Len(vs)}
IsAuto == "AutoField" \in {getmro(model_field.cls)[i] : i \in 1..Len(getmro(model_field.cls))}
IsChar == "CharField" \in {getmro(model_field.cls)[i] : i \in 1..Len(getmro(model_field.cls))}
PlainField == model_field.editable /\ ~IsAuto /\ model_field.flatchoices = <<>>

BoundKeys == {"max_length", "min_length", "max_value", "min_value"}
EarlyKeys == {"label", "help_text", "max_digits", "decimal_places", "style"}

\* The kinds of validator the rules of a plain field drop from the list.
DroppedKinds ==
    {"MinLengthValidator", "MaxValueValidator", "MinValueValidator"}
      \cup (IF IsChar /\ model_field.max_length # None THEN {"MaxLengthValidator"} ELSE {})
      \cup (IF model_field.cls = "URLField" THEN {"URLValidator"} ELSE {})
      \cup (IF model_field.cls = "EmailField" THEN {"validate_email"} ELSE {})
      \cup (IF model_field.cls = "SlugField" THEN {"validate_slug"} ELSE {})

\* The field's validators that no rule drops, in the field's order.
KeptValidators == SelectSeq(FieldValidators, LAMBDA v : v.kind \notin DroppedKinds)

\* C1 as stated: for a field with editable=False, get_field_kwargs returns
\* only read_only: true and model_field, and no other key.
C1_OnlyReadOnly ==
    (Returned("get_field_kwargs") /\ ~model_field.editable)
        => DOMAIN result = {"model_field", "read_only"} /\ result["read_only"] = TRUE

\* C1 amended: for a field with editable=False, get_field_kwargs returns
\* read_only: true and model_field, and besides them only keys set before the
\* read-only return (label, help_text, max_digits, decimal_places, style):
\* none of required, allow_null, allow_blank, choices, a bound or validators.
C1_ReadOnlyReturn ==
    (Returned("get_field_kwargs") /\ ~model_field.editable)
        => /\ {"model_field", "read_only"} \subseteq DOMAIN result
           /\ result["read_only"] = TRUE
           /\ result["model_field"] = model_field
           /\ DOMAIN result \subseteq {"model_field", "read_only"} \cup EarlyKeys

C1_Witness ==
    /\ Returned("get_field_kwargs")
    /\ ~model_field.editable
    /\ model_field.null /\ model_field.blank /\ model_field.unique
    /\ model_field.flatchoices # <<>>
    /\ model_field.max_length # None
    /\ FieldValidators # <<>>
    /\ Has("help_text") /\ Has("label") /\ Has("read_only")

\* C2 as stated: for any field with non-empty flatchoices, the result holds
\* choices (the field's flatchoices) and no bound or validators key; and
\* choices never comes with max_length or validators.
C2_ChoicesAlways ==
    Returned("get_field_kwargs")
        => /\ model_field.flatchoices # <<>>
                => /\ Has("choices")
                   /\ result["choices"] = model_field.flatchoices
                   /\ DOMAIN result \cap (BoundKeys \cup {"validators"}) = {}
           /\ Has("choices") => ~Has("max_length") /\ ~Has("validators")

\* C2 amended: for any editable, non-auto field with non-empty flatchoices,
\* the result holds choices (the field's flatchoices) and no bound or
\* validators key; a read-only field gets no choices key; and in every
\* result choices never comes with max_length or validators.
C2_ChoicesEditable ==
    Returned("get_field_kwargs")
        => /\ (model_field.flatchoices # <<>> /\ model_field.editable /\ ~IsAuto)
                => /\ Has("choices")
                   /\ result["choices"] = model_field.flatchoices
                   /\ DOMAIN result \cap (BoundKeys \cup {"validators"}) = {}
           /\ (~model_field.editable \/ IsAuto) => ~Has("choices")
           /\ Has("choices") => ~Has("max_length") /\ ~Has("validators")

C2_Witness ==
    /\ Returned("get_field_kwargs")
    /\ model_field.editable
    /\ model_field.cls = "CharField"
    /\ model_field.flatchoices # <<>>
    /\ model_field.max_length # None
    /\ model_field.unique
    /\ FieldValidators # <<>>
    /\ Has("choices")

\* C3: for an editable CharField without choices and with max_length = n,
\* the result holds max_length: n, its validators hold no MaxLengthValidator,
\* and the field's validators that no rule drops are kept in their order
\* (followed by the uniqueness validator of a unique field).
C3_MaxLength ==
    (Returned("get_field_kwargs") /\ IsChar /\ PlainField /\ model_field.max_length # None)
        => /\ Has("max_length")
           /\ result["max_length"] = model_field.max_length[1]
           /\ "MaxLengthValidator" \notin Kinds(ResultValidators)
           /\ ResultValidators =
                  KeptValidators \o (IF model_field.unique THEN <<UniqueValidator>> ELSE <<>>)

C3_Witness ==
    /\ Returned("get_field_kwargs")
    /\ model_field.cls = "CharField" /\ PlainField
    /\ model_field.max_length # None
    /\ {"MaxLengthValidator", "RegexValidator"} \subseteq Kinds(FieldValidators)
    /\ Has("max_length")
    /\ Kinds(ResultValidators) = {"RegexValidator"}

\* The limit value of the first validator of a kind in the field's list.
IsFirstLimit(kind, limit) ==
    \E i \in 1..Len(FieldValidators) :
        /\ FieldValidators[i].kind = kind
        /\ \A j \in 1..(i - 1) : FieldValidators[j].kind # kind
        /\ FieldValidators[i].limit_value = limit

BoundRules ==
    {<<"MinLengthValidator", "min_length">>, <<"MaxValueValidator", "max_value">>,
     <<"MinValueValidator", "min_value">>}

\* C9: for an editable, non-auto field without choices and each of
\* MinLengthValidator/min_length, MaxValueValidator/max_value and
\* MinValueValidator/min_value: when the field has a validator of the kind,
\* the result holds the keyword with the limit of the first such validator
\* (also when it is 0) and no validator of the kind; when it has none, the
\* keyword is absent.  The validators key is present only with a non-empty
\* list, and absent only when every validator was dropped.
C9_BoundsAsKeywords ==
    (Returned("get_field_kwargs") /\ PlainField)
        => /\ \A r \in BoundRules :
                  IF r[1] \in Kinds(FieldValidators)
                  THEN /\ Has(r[2])
                       /\ IsFirstLimit(r[1], result[r[2]])
                       /\ r[1] \notin Kinds(ResultValidators)
                  ELSE ~Has(r[2])
           /\ Has("validators") => heap[result["validators"]] # <<>>
           /\ ~Has("validators") => KeptValidators = <<>> /\ ~model_field.unique

C9_Witness ==
    /\ Returned("get_field_kwargs") /\ PlainField
    /\ Len(FieldValidators) = 2
    /\ FieldValidators[1] = [kind |-> "MinLengthValidator", limit_value |-> 0]
    /\ FieldValidators[2].kind = "MinLengthValidator"
    /\ FieldValidators[2].limit_value # 0
    /\ Has("min_length") /\ result["min_length"] = 0
    /\ ~Has("validators")

\* C10: for an editable, non-auto field, required: false is set exactly when
\* the field has a default, is blank or is null (required is never true),
\* allow_null: true exactly when it is null and no NullBooleanField, and
\* allow_blank: true exactly when it is blank.  In every result allow_null
\* or allow_blank come with required: false, and none of the three comes
\* with read_only.
C10_RequiredFlags ==
    Returned("get_field_kwargs")
        => /\ (model_field.editable /\ ~IsAuto)
                => /\ Has("required") <=>
                          (model_field.has_default \/ model_field.blank \/ model_field.null)
                   /\ Has("allow_null") <=>
                          (model_field.null /\ model_field.cls # "NullBooleanField")
                   /\ Has("allow_blank") <=> model_field.blank
           /\ Has("required") => result["required"] = FALSE
           /\ Has("allow_null") => result["allow_null"] = TRUE
           /\ Has("allow_blank") => result["allow_blank"] = TRUE
           /\ (Has("allow_null") \/ Has("allow_blank")) => Has("required")
           /\ Has("read_only")
                => DOMAIN result \cap {"required", "allow_null", "allow_blank"} = {}

C10_Witness ==
    /\ Returned("get_field_kwargs")
    /\ model_field.editable /\ ~IsAuto
    /\ model_field.blank /\ ~model_field.null /\ ~model_field.has_default
    /\ Has("required") /\ Has("allow_blank") /\ ~Has("allow_null")

\* C4: in the results of get_field_kwargs and get_relation_kwargs, label is
\* present only when the field has a verbose name whose capfirst differs
\* from the label derived from the field name (underscores to spaces, then
\* capitalised), and its value is then the capfirst of the verbose name;
\* a field of either call that has such a verbose name gets the label.
C4_Label ==
    (Returned("get_field_kwargs") \/ Returned("get_relation_kwargs"))
        => IF model_field = NoField THEN ~Has("label")
           ELSE LET shown == capfirst(model_field.verbose_name)
                    derived == Capitalize(Replace(field_name, "_", " "))
                IN  /\ Has("label") => shown # derived /\ result["label"] = shown
                    /\ (shown = derived \/ model_field.verbose_name = <<>>) => ~Has("label")
                    /\ (shown # derived /\ model_field.verbose_name # <<>>) => Has("label")

C4_Witness ==
    /\ Returned("get_relation_kwargs")
    /\ model_field # NoField
    /\ Has("label")
    /\ result["label"] # model_field.verbose_name
    /\ Lower(result["label"]) = Lower(Replace(field_name, "_", " "))

\* The places of the base class's method resolution order that are keys.
LookedUpMro == getmro(IF key.proxy_class # None THEN key.proxy_class[1] ELSE key.cls)
Registered == {i \in 1..Len(LookedUpMro) : LookedUpMro[i] \in DOMAIN mapping}

\* C5: a lookup returns the value registered for the first class, in the
\* method resolution order of the object's class (of its _proxy_class when
\* it has one), that is a key of the mapping; it raises KeyError, and
\* returns nothing, exactly when no class of that order is a key.
C5_Lookup ==
    /\ Returned("KeyError") => Registered = {}
    /\ Returned("getitem")
          => \E i \in Registered :
                 /\ \A j \in Registered : i <= j
                 /\ result = mapping[LookedUpMro[i]]

C5_Witness ==
    /\ Returned("getitem")
    /\ key.proxy_class # None
    /\ key.cls \notin DOMAIN mapping
    /\ \E i \in Registered, j \in Registered :
           /\ i < j
           /\ \A k \in Registered : i <= k
           /\ mapping[LookedUpMro[i]] # mapping[LookedUpMro[j]]
           /\ result = mapping[LookedUpMro[i]]

\* C6: get_relation_kwargs returns read_only: true, no queryset and none of
\* required, allow_null, validators when the relation has a through model
\* or its model field is not editable, and queryset without read_only
\* otherwise; read_only and queryset never come together, view_name is
\* always there, and many: true is there exactly for a to-many relation.
C6_RelationReadOnly ==
    Returned("get_relation_kwargs")
        => LET read_only == \/ has_through_model
                            \/ (model_field # NoField /\ ~model_field.editable)
           IN  /\ read_only
                    => /\ Has("read_only") /\ result["read_only"] = TRUE
                       /\ DOMAIN result \cap
                              {"queryset", "required", "allow_null", "validators"} = {}
               /\ ~read_only => Has("queryset") /\ ~Has("read_only")
               /\ ~(Has("read_only") /\ Has("queryset"))
               /\ Has("view_name")
               /\ Has("many") <=> to_many
               /\ Has("many") => result["many"] = TRUE

C6_Witness ==
    /\ Returned("get_relation_kwargs")
    /\ ~has_through_model /\ to_many
    /\ model_field # NoField
    /\ ~model_field.editable /\ model_field.null /\ model_field.unique
    /\ FieldValidators # <<>>
    /\ Has("read_only") /\ ~Has("queryset")

\* C7 as stated: the view name holds the model's app label and its
\* lower-cased object name, and ends in -detail.
C7_AppLabelInName ==
    Returned("get_detail_view_name")
        => /\ IsSubstring(related_model.app_label, result)
           /\ IsSubstring(Lower(related_model.object_name), result)
           /\ SubSeq(result, Len(result) - Len(Detail) + 1, Len(result)) = Detail

\* C7 amended: the view name is the model's lower-cased object name followed
\* by -detail, and nothing else: the app label is not part of it.
C7_ViewName ==
    Returned("get_detail_view_name")
        => /\ Len(result) = Len(related_model.object_name) + Len(Detail)
           /\ \A i \in 1..Len(related_model.object_name) :
                  result[i] = LowerChar(related_model.object_name[i])
           /\ \A i \in 1..Len(Detail) :
                  result[Len(related_model.object_name) + i] = Detail[i]

C7_Witness ==
    /\ Returned("get_detail_view_name")
    /\ Lower(related_model.object_name) # related_model.object_name
    /\ ~IsSubstring(related_model.app_label, result)
    /\ IsSubstring(Lower(related_model.object_name), result)

\* C8: no call of get_field_kwargs or get_relation_kwargs changes its
\* inputs: the field name, the model field descriptor, the relation and the
\* elements and order of the model field's validators list stay as they were.
C8_InputsUnchanged ==
    [][/\ field_name' = field_name
       /\ model_field' = model_field
       /\ <<related_model, to_many, has_through_model>>' =
              <<related_model, to_many, has_through_model>>
       /\ heap'[FieldList] = heap[FieldList]]_vars

C8_Witness ==
    /\ Returned("get_field_kwargs")
    /\ model_field.editable /\ model_field.unique
    /\ model_field.cls = "IntegerField"
    /\ Len(FieldValidators) = 2
    /\ Has("validators")
    /\ ResultValidators = FieldValidators \o <<UniqueValidator>>

====
